---- MODULE Spec2Model ----
(***************************************************************************)
(* Model of app.py: the asynchronous upload service.                      *)
(*                                                                         *)
(*  - the YouTube Status Store youtube_status.json, read by read_json and  *)
(*    written by write_json (open "w" truncates, json.dump + flush fills); *)
(*  - the request handlers upload_youtube, upload_wp, upload_wp_image,     *)
(*    yt_status and wp_status_by_job, served one request at a time;        *)
(*  - one daemon thread per admitted job running async_upload_to_youtube,  *)
(*    async_upload_to_wordpress or async_upload_image_to_wordpress;        *)
(*  - the WordPress media listing, the only ledger of WordPress jobs.      *)
(*                                                                         *)
(* Threads interleave at every access to the status file and at every      *)
(* external call.  Local disk writes are taken to succeed in Spec.         *)
(***************************************************************************)
EXTENDS Integers, Sequences, FiniteSets, TLC

\* Number of admissions the model follows (uuid4 is unbounded in the code):
\* MaxJobs in Spec and SpecWP, MaxStoreJobs in SpecStore.
MaxJobs == 2
MaxStoreJobs == 3

JobIds == 1..MaxStoreJobs
\* job_id query values: 0 is a missing/empty parameter, MaxJobs + 1 a string
\* that uuid4 never returns.
NoJob == 0
QueryIds == 0..(MaxJobs + 1)

VARIABLES
    file,        \* content of YT_STATUS_FILE on disk
    minted,      \* number of job ids uuid4 has returned so far
    job,         \* per job id: arguments, locals, log and position of its worker
                 \* (landed: the terminal state of its record once a write_json
                 \* of the worker has put it in the document)
    h,           \* the request handler: position, locals, response
    remote,      \* WordPress media listing, most recent item first
    wp_env,      \* WP_API_BASE, WP_USER and WP_APP_PASSWORD are all set
    wp_pending,  \* uploads WordPress is still processing after the proxy gave up
    dl           \* one call of streamed_download: its locals and what it reported

vars == <<file, minted, job, h, remote, wp_env, wp_pending, dl>>

-----------------------------------------------------------------------------
\* Job Records and the status document

NoRec == [state |-> "none"]
EmptyMap == [k \in JobIds |-> NoRec]

\* Python truthiness of a request field: None and "" are falsy.
FieldValues == {"None", "", "x"}
\* A variant of Truthy that tests "is not None" instead of truthiness.
TruthyNotNone(v) == v # "None"

Truthy(v) == v \notin {"None", ""}

ProcessingRecord(channel) ==
    [state |-> "processing", channel |-> channel, title |-> "T", started_at |-> "ts"]

YoutubeUrl(vid) == <<"https://youtu.be/", vid>>

\* A variant of CompletedRecord that leaves the channel out.
CompletedRecord_no_channel(j, vid, channel) ==
    [state |-> "completed", youtube_url |-> YoutubeUrl(vid), finished_at |-> "ts",
     source_filename |-> <<"file", j>>]

CompletedRecord(j, vid, channel) ==
    [state |-> "completed", youtube_url |-> YoutubeUrl(vid), finished_at |-> "ts",
     channel |-> channel, source_filename |-> <<"file", j>>]

ErrorRecord(e) ==
    [state |-> "error", error |-> e, finished_at |-> "ts"]

\* The file is absent/empty ("empty"), holds a JSON document ("json") or holds
\* bytes json.load rejects ("garbage").
EmptyFile == [kind |-> "empty", data |-> EmptyMap]
JsonFile(data) == [kind |-> "json", data |-> data]
GarbageFile == [kind |-> "garbage", data |-> EmptyMap]

\* read_json(path, dict): the document, or dict() when open/json.load raises.
read_json(f) == IF f.kind = "json" THEN f.data ELSE EmptyMap

\* write_json, first half: open(path, "w") truncates the file.
write_open(f) == EmptyFile

\* write_json, second half: json.dump + flush + fsync write the document at
\* offset 0 of this writer's descriptor.  On a file another writer has filled
\* since this writer's open, the bytes overlay: the result is this document
\* when it is at least as long, and trailing bytes of the other otherwise.
write_dump(f, data) ==
    IF f.kind = "empty" THEN {JsonFile(data)} ELSE {JsonFile(data), GarbageFile}

\* dict.get(job_id)
Get(map, q) == IF q \in JobIds THEN map[q] ELSE NoRec

-----------------------------------------------------------------------------
\* select_channel_by_location: location is the list of its comma/newline
\* separated entries, stripped and lowercased.
Locations == { <<>>, <<"europe">>, <<"asia", "north america">> }

\* The entries a location field is made of in SpecChannel: the four dropdown
\* values, one of them also capitalised and one padded with blanks, and a
\* value that routes nowhere.
RawEntries ==
    {"united kingdom", "north america", "north america (spanish)", "asia",
     "United Kingdom", " ASIA ", "europe"}

LocationTexts ==
    {<<>>} \cup {<<a>> : a \in RawEntries} \cup {<<a, b>> : a \in RawEntries, b \in RawEntries}

\* p.strip().lower()
Normalise(p) ==
    IF p = "United Kingdom" THEN "united kingdom"
    ELSE IF p = " ASIA " THEN "asia"
    ELSE p

Canon(p) ==
    IF p = "united kingdom" THEN {"UK"}
    ELSE IF p = "north america" THEN {"US"}
    ELSE IF p = "north america (spanish)" THEN {"ES"}
    ELSE IF p = "asia" THEN {"Asia"}
    ELSE {}

\* A variant of select_channel_by_location that gives North America priority
\* over the United Kingdom.
select_channel_by_location_us_first(location) ==
    LET canon == UNION { Canon(Normalise(location[i])) : i \in 1..Len(location) }
    IN  IF "US" \in canon THEN "US"
        ELSE IF "UK" \in canon THEN "UK"
        ELSE IF "ES" \in canon THEN "Spain"
        ELSE IF "Asia" \in canon THEN "Asia"
        ELSE "UK"

select_channel_by_location(location) ==
    LET canon == UNION { Canon(Normalise(location[i])) : i \in 1..Len(location) }
    IN  IF "UK" \in canon THEN "UK"
        ELSE IF "US" \in canon THEN "US"
        ELSE IF "ES" \in canon THEN "Spain"
        ELSE IF "Asia" \in canon THEN "Asia"
        ELSE "UK"

-----------------------------------------------------------------------------
\* Scheduling (publish_at)

MaxWall == 2

\* Wall-clock readings and instants, in hours.
Walls == 0..MaxWall
Offsets == {-1, 0, 1}
Clock == 0..MaxWall

PrivacyValues == {"unlisted", "public", "private"}

\* publish_at as the caller sends it: absent, empty, unparsable, a wall time
\* with a numeric offset, a bare wall time, a wall time with a trailing Z.
NoPublishAt == [form |-> "none", wall |-> 0, off |-> 0]

PublishAtValues ==
    { [form |-> f, wall |-> 0, off |-> 0] : f \in {"none", "empty", "bad"} }
        \cup [form : {"offset"}, wall : Walls, off : Offsets]
        \cup [form : {"naive", "z"}, wall : Walls, off : {0}]

Parses(s) == s.form \in {"offset", "naive", "z"}

\* publish_at as text: date, separator, HH:MM, optional :SS, and a suffix:
\* none, Z, a numeric offset +HH:MM, or a numeric offset +HHMM.
Suffixes == {"", "Z", "+HH:MM", "+HHMM"}

PublishAtTexts ==
    [sep : {" ", "T"}, secs : BOOLEAN, suffix : {"", "Z"}, wall : Walls, off : {0}]
        \cup [sep : {" ", "T"}, secs : BOOLEAN, suffix : {"+HH:MM", "+HHMM"},
              wall : Walls, off : Offsets]

\* len(s_clean): "YYYY-MM-DD HH:MM" is 16 characters, ":SS" 3, and rstrip('Z')
\* has removed a trailing Z.
CleanLen(t) ==
    16 + (IF t.secs THEN 3 ELSE 0)
       + (IF t.suffix = "+HH:MM" THEN 6 ELSE IF t.suffix = "+HHMM" THEN 5 ELSE 0)

\* The branches of parse_publish_at_uk on the text t: the regex
\* [+-]\d{2}:\d{2}$ sends it to fromisoformat with its offset; otherwise
\* strptime reads s_clean[:19] with seconds when len(s_clean) >= 19, which
\* fails unless characters 17..19 are ":SS", and s_clean[:16] when shorter.
\* What strptime reads has no offset.
ReadPublishAt(t) ==
    IF t.suffix = "+HH:MM"
    THEN [form |-> "offset", wall |-> t.wall, off |-> t.off, text |-> t]
    ELSE IF CleanLen(t) >= 19 /\ ~t.secs
    THEN [form |-> "bad", wall |-> 0, off |-> 0, text |-> t]
    ELSE [form |-> IF t.suffix = "Z" THEN "z" ELSE "naive",
          wall |-> t.wall, off |-> 0, text |-> t]

\* Europe/London: the offset from UTC of a wall time (summer time from wall 1).
UK_TZ(wall) == IF wall >= 1 THEN 1 ELSE 0

\* An explicit numeric offset is respected; anything else, a trailing Z
\* included, is UK wall time.  The result is an aware datetime.
parse_publish_at_uk(s) ==
    IF s.form = "offset" THEN [wall |-> s.wall, off |-> s.off]
    ELSE [wall |-> s.wall, off |-> UK_TZ(s.wall)]

\* dt.astimezone(timezone.utc): the instant, as a UTC wall time.
astimezone_utc(dt) == dt.wall - dt.off

\* dt_utc.isoformat().replace('+00:00', 'Z')
isoformat(t) == <<t, "+00:00">>

replace_Z(x) == IF x[2] = "+00:00" THEN <<x[1], "Z">> ELSE x

NoField == <<>>

\* A variant of status_obj that also schedules an instant equal to now.
status_obj_not_before(privacy, publish_at, now) ==
    IF ~Parses(publish_at)
    THEN [privacyStatus |-> privacy, publishAt |-> NoField]
    ELSE LET dt_utc == astimezone_utc(parse_publish_at_uk(publish_at)) IN
         IF dt_utc >= now
         THEN [privacyStatus |-> "private", publishAt |-> replace_Z(isoformat(dt_utc))]
         ELSE [privacyStatus |-> privacy, publishAt |-> NoField]

\* status_obj as the insert sends it: privacyStatus and, when scheduled,
\* publishAt.  An absent or empty publish_at skips the block, an unparsable
\* one raises inside it and leaves status_obj as it was.
status_obj(privacy, publish_at, now) ==
    IF ~Parses(publish_at)
    THEN [privacyStatus |-> privacy, publishAt |-> NoField]
    ELSE LET dt_utc == astimezone_utc(parse_publish_at_uk(publish_at)) IN
         IF dt_utc > now
         THEN [privacyStatus |-> "private", publishAt |-> replace_Z(isoformat(dt_utc))]
         ELSE [privacyStatus |-> privacy, publishAt |-> NoField]

\* The jlog event of the scheduling block, if any.
ScheduleEvent(publish_at, now) ==
    IF publish_at.form \in {"none", "empty"} THEN <<>>
    ELSE IF publish_at.form = "bad" THEN <<"yt.schedule.error">>
    ELSE IF astimezone_utc(parse_publish_at_uk(publish_at)) > now THEN <<"yt.schedule">>
    ELSE <<"yt.schedule.skip">>

NoItem == [privacyStatus |-> "none", publishAt |-> NoField]

\* dt of the scheduling block, when parse_publish_at_uk has returned.
NoDt == [wall |-> 0, off |-> 0, set |-> FALSE]

ParsedDt(publish_at) ==
    IF Parses(publish_at)
    THEN [wall |-> parse_publish_at_uk(publish_at).wall,
          off |-> parse_publish_at_uk(publish_at).off, set |-> TRUE]
    ELSE NoDt

-----------------------------------------------------------------------------
\* Local temporary files

\* tmp = f"yt_{job_id}.mp4", thf = f"yt_thumb_{job_id}.jpg", tmp = f"wp_{job_id}",
\* tmp = f"wp_img_{job_id}"; youtube_upload.py: "temp_video.mp4" and
\* "temp_thumbnail.jpg".  kind is the pipeline, label the file's role.
TmpPath(kind, job_id, label) ==
    IF kind = "yt"
    THEN (IF label = "video" THEN [prefix |-> "yt_", id |-> job_id, suffix |-> ".mp4"]
          ELSE [prefix |-> "yt_thumb_", id |-> job_id, suffix |-> ".jpg"])
    ELSE IF kind = "wp" THEN [prefix |-> "wp_", id |-> job_id, suffix |-> ""]
    ELSE IF kind = "wpimg" THEN [prefix |-> "wp_img_", id |-> job_id, suffix |-> ""]
    ELSE (IF label = "video" THEN [prefix |-> "temp_video", id |-> NoJob, suffix |-> ".mp4"]
          ELSE [prefix |-> "temp_thumbnail", id |-> NoJob, suffix |-> ".jpg"])

-----------------------------------------------------------------------------
\* streamed_download(url, dest_path, log_prefix, chunk, on_progress)

\* Sizes in bytes of the bodies the model downloads.
MaxTotal == 12

\* total: Content-Length (0: absent or "0", total is None); body: bytes the
\* response still has to deliver; written: bytes written to dest_path;
\* reports: the percentages logged and passed to on_progress.
IdleDownload ==
    [pc |-> "idle", total |-> 0, body |-> 0, read |-> 0, next_pct |-> 0,
     written |-> 0, reports |-> <<>>]

\* requests.get, raise_for_status, total = int(Content-Length or "0") or None,
\* next_pct, read = 0, 0, open(dest_path, "wb")
streamed_download(total, body) ==
    /\ dl.pc = "idle"
    /\ total \in {0, body}
    /\ dl' = [IdleDownload EXCEPT !.pc = "run", !.total = total, !.body = body]
    /\ UNCHANGED <<file, minted, job, h, remote, wp_env, wp_pending>>

\* int(read*100/total)
Pct(read, total) == (read * 100) \div total

\* One iteration of the loop over r.iter_content(chunk) with a chunk of c
\* bytes; an empty chunk is skipped.
streamed_download_chunk(c) ==
    /\ dl.pc = "run" /\ dl.body > 0
    /\ c \in 0..dl.body
    /\ IF c = 0 THEN dl' = dl
       ELSE LET read == dl.read + c
                pct == Pct(read, dl.total)
            IN  IF dl.total = 0
                THEN dl' = [dl EXCEPT !.body = @ - c, !.written = @ + c]
                ELSE IF pct >= dl.next_pct
                THEN dl' = [dl EXCEPT !.body = @ - c, !.written = @ + c, !.read = read,
                                      !.reports = Append(@, pct), !.next_pct = @ + 10]
                ELSE dl' = [dl EXCEPT !.body = @ - c, !.written = @ + c, !.read = read]
    /\ UNCHANGED <<file, minted, job, h, remote, wp_env, wp_pending>>

\* The iterator is exhausted: "download complete", return.
streamed_download_return ==
    /\ dl.pc = "run" /\ dl.body = 0
    /\ dl' = [dl EXCEPT !.pc = "done"]
    /\ UNCHANGED <<file, minted, job, h, remote, wp_env, wp_pending>>

-----------------------------------------------------------------------------
\* Initial state

IdleJob ==
    [kind |-> "none", pc |-> "none", thumb |-> FALSE, bunny |-> FALSE,
     channel |-> "UK", meta |-> FALSE, title_ref |-> NoJob, st |-> EmptyMap,
     vid |-> 0, err |-> "", post |-> "", landed |-> "", log |-> <<>>, tmp |-> {},
     privacy |-> "unlisted", publish_at |-> NoPublishAt, now |-> 0, item |-> NoItem,
     steps |-> <<>>, missed |-> {}, paths |-> {}, sent |-> NoJob, dt |-> NoDt,
     location |-> <<>>]

NoReq == [video_url |-> "None", title |-> "None", description |-> "None"]
NoResp == [code |-> 0]
IdleH == [pc |-> "idle", ep |-> "none", jid |-> NoJob, req |-> NoReq,
          st |-> EmptyMap, resp |-> NoResp, passes |-> <<>>, missed |-> {}]

Init ==
    /\ file = EmptyFile
    /\ minted = 0
    /\ job = [j \in JobIds |-> IdleJob]
    /\ h = IdleH
    /\ remote = <<>>
    /\ wp_env \in BOOLEAN
    /\ wp_pending = {}
    /\ dl = IdleDownload

-----------------------------------------------------------------------------
\* POST /upload-to-youtube

\* A variant of upload_youtube whose read of a missing or malformed document
\* raises: the request is answered 500 and no job is created.
upload_youtube_strict(video_url, title, description, thumb, bunny, location, privacy, publish_at) ==
    LET req == [video_url |-> video_url, title |-> title, description |-> description]
        channel_key == select_channel_by_location(location)
    IN
    /\ h.pc = "idle"
    /\ IF ~(Truthy(video_url) /\ Truthy(title) /\ Truthy(description))
       THEN /\ h' = [IdleH EXCEPT !.pc = "responded", !.ep = "yt", !.req = req,
                                  !.resp = [code |-> 400]]
            /\ UNCHANGED <<minted, job>>
       ELSE IF file.kind # "json"
       THEN /\ h' = [IdleH EXCEPT !.pc = "responded", !.ep = "yt", !.req = req,
                                  !.resp = [code |-> 500]]
            /\ UNCHANGED <<minted, job>>
       ELSE /\ minted + 1 \in JobIds
            /\ LET job_id == minted + 1 IN
               /\ minted' = job_id
               /\ job' = [job EXCEPT ![job_id] =
                            [IdleJob EXCEPT !.kind = "yt", !.pc = "unstarted",
                                            !.thumb = thumb, !.bunny = bunny,
                                            !.channel = channel_key,
                                            !.location = location,
                                            !.privacy = privacy,
                                            !.publish_at = publish_at]]
               /\ h' = [IdleH EXCEPT !.pc = "yt_open", !.ep = "yt", !.req = req,
                                     !.jid = job_id,
                                     !.st = [read_json(file) EXCEPT ![job_id] =
                                                ProcessingRecord(channel_key)]]
    /\ UNCHANGED <<file, remote, wp_env, wp_pending, dl>>

\* Validation, uuid4, and the read half of the status patch.
upload_youtube(video_url, title, description, thumb, bunny, location, privacy, publish_at) ==
    LET req == [video_url |-> video_url, title |-> title, description |-> description]
        channel_key == select_channel_by_location(location)
    IN
    /\ h.pc = "idle"
    /\ IF ~(Truthy(video_url) /\ Truthy(title) /\ Truthy(description))
       THEN /\ h' = [IdleH EXCEPT !.pc = "responded", !.ep = "yt", !.req = req,
                                  !.resp = [code |-> 400]]
            /\ UNCHANGED <<minted, job>>
       ELSE /\ minted + 1 \in JobIds
            /\ LET job_id == minted + 1 IN
               /\ minted' = job_id
               /\ job' = [job EXCEPT ![job_id] =
                            [IdleJob EXCEPT !.kind = "yt", !.pc = "unstarted",
                                            !.thumb = thumb, !.bunny = bunny,
                                            !.channel = channel_key,
                                            !.location = location,
                                            !.privacy = privacy,
                                            !.publish_at = publish_at]]
               /\ h' = [IdleH EXCEPT !.pc = "yt_open", !.ep = "yt", !.req = req,
                                     !.jid = job_id,
                                     !.st = [read_json(file) EXCEPT ![job_id] =
                                                ProcessingRecord(channel_key)]]
    /\ UNCHANGED <<file, remote, wp_env, wp_pending, dl>>

upload_youtube_open ==
    /\ h.pc = "yt_open"
    /\ file' = write_open(file)
    /\ h' = [h EXCEPT !.pc = "yt_dump"]
    /\ UNCHANGED <<minted, job, remote, wp_env, wp_pending, dl>>

upload_youtube_dump ==
    /\ h.pc = "yt_dump"
    /\ file' \in write_dump(file, h.st)
    /\ h' = [h EXCEPT !.pc = "yt_start", !.st = EmptyMap]
    /\ UNCHANGED <<minted, job, remote, wp_env, wp_pending, dl>>

\* A variant of upload_youtube_start with a pool of one worker: the thread
\* starts once no other worker is running.
upload_youtube_start_pooled ==
    /\ h.pc = "yt_start"
    /\ \A k \in JobIds : job[k].pc \in {"none", "unstarted", "done"}
    /\ job' = [job EXCEPT ![h.jid].pc = "start"]
    /\ h' = [h EXCEPT !.pc = "yt_return"]
    /\ UNCHANGED <<file, minted, remote, wp_env, wp_pending, dl>>

\* threading.Thread(target=async_upload_to_youtube, ...).start()
upload_youtube_start ==
    /\ h.pc = "yt_start"
    /\ job' = [job EXCEPT ![h.jid].pc = "start"]
    /\ h' = [h EXCEPT !.pc = "yt_return"]
    /\ UNCHANGED <<file, minted, remote, wp_env, wp_pending, dl>>

\* A variant of upload_youtube_return that joins the worker thread before it
\* answers.
upload_youtube_return_join ==
    /\ h.pc = "yt_return"
    /\ job[h.jid].pc = "done"
    /\ h' = [h EXCEPT !.pc = "responded",
                      !.resp = [code |-> 202, status |-> "processing",
                                job_id |-> h.jid, channel |-> job[h.jid].channel]]
    /\ UNCHANGED <<file, minted, job, remote, wp_env, wp_pending, dl>>

upload_youtube_return ==
    /\ h.pc = "yt_return"
    /\ h' = [h EXCEPT !.pc = "responded",
                      !.resp = [code |-> 202, status |-> "processing",
                                job_id |-> h.jid, channel |-> job[h.jid].channel]]
    /\ UNCHANGED <<file, minted, job, remote, wp_env, wp_pending, dl>>

\* A variant of yt_status that answers 200 with whatever the lookup gave,
\* without the 404 branch.
yt_status_no_404(job_id) ==
    /\ h.pc = "idle"
    /\ LET data == Get(read_json(file), job_id) IN
       h' = [IdleH EXCEPT !.pc = "responded", !.ep = "status", !.jid = job_id,
                          !.resp = IF job_id = NoJob THEN [code |-> 400]
                                   ELSE [code |-> 200, body |-> data]]
    /\ UNCHANGED <<file, minted, job, remote, wp_env, wp_pending, dl>>

\* GET /status-check
yt_status(job_id) ==
    /\ h.pc = "idle"
    /\ LET data == Get(read_json(file), job_id) IN
       h' = [IdleH EXCEPT !.pc = "responded", !.ep = "status", !.jid = job_id,
                          !.resp = IF job_id = NoJob THEN [code |-> 400]
                                   ELSE IF data # NoRec
                                   THEN [code |-> 200, body |-> data]
                                   ELSE [code |-> 404]]
    /\ UNCHANGED <<file, minted, job, remote, wp_env, wp_pending, dl>>

\* The response has been sent; the handler takes the next request.
finish ==
    /\ h.pc = "responded"
    /\ h' = IdleH
    /\ UNCHANGED <<file, minted, job, remote, wp_env, wp_pending, dl>>

-----------------------------------------------------------------------------
\* async_upload_to_youtube(job_id, ...)

\* streamed_download(video_url, tmp): raise_for_status may fail before the
\* file is opened ("fail"), iter_content after ("fail_partial").
DownloadOutcomes == {"ok", "fail", "fail_partial"}

yt_download(j, o) ==
    /\ job[j].kind = "yt" /\ job[j].pc = "start"
    /\ job' = [job EXCEPT
                 ![j].pc = IF o = "ok" THEN "downloaded" ELSE "except",
                 ![j].err = IF o = "ok" THEN @ ELSE "download",
                 ![j].tmp = IF o = "fail" THEN @ ELSE @ \cup {"video"},
                 ![j].paths = IF o = "fail" THEN @ ELSE @ \cup {TmpPath("yt", j, "video")},
                 ![j].steps = Append(@, "fetch"),
                 ![j].log = Append(@, "yt.start")]
    /\ UNCHANGED <<file, minted, h, remote, wp_env, wp_pending, dl>>

\* yt_service(channel_key): a missing environment key or a RefreshError raises.
CallOutcomes == {"ok", "fail"}

yt_service(j, o) ==
    /\ job[j].kind = "yt" /\ job[j].pc = "downloaded"
    /\ job' = [job EXCEPT
                 ![j].pc = IF o = "ok" THEN "authed" ELSE "except",
                 ![j].steps = Append(@, "auth"),
                 ![j].err = IF o = "ok" THEN @ ELSE "auth"]
    /\ UNCHANGED <<file, minted, h, remote, wp_env, wp_pending, dl>>

\* A variant of yt_insert without the try/except of the scheduling block: a
\* publish_at that cannot be parsed reaches the handler of the pipeline.
yt_insert_strict(j, o, now) ==
    /\ job[j].kind = "yt" /\ job[j].pc = "authed"
    /\ IF job[j].publish_at.form = "bad"
       THEN job' = [job EXCEPT ![j].pc = "except", ![j].err = "publish_at",
                               ![j].now = now]
       ELSE job' = [job EXCEPT
                      ![j].pc = IF o = "ok" THEN "uploaded" ELSE "except",
                      ![j].err = IF o = "ok" THEN @ ELSE "upload",
                      ![j].vid = IF o = "ok" THEN j ELSE @,
                      ![j].now = now,
                      ![j].dt = ParsedDt(job[j].publish_at),
                      ![j].steps = Append(@, "transfer"),
                      ![j].item = IF o = "ok"
                                  THEN status_obj(job[j].privacy, job[j].publish_at, now)
                                  ELSE @,
                      ![j].log = IF o = "ok"
                                 THEN Append(@ \o ScheduleEvent(job[j].publish_at, now), "yt.done")
                                 ELSE @ \o ScheduleEvent(job[j].publish_at, now)]
    /\ UNCHANGED <<file, minted, h, remote, wp_env, wp_pending, dl>>

\* The scheduling decision at clock reading now, then videos().insert and the
\* next_chunk loop; the platform's video id for the insert of job j is j, and
\* item is the status the platform item was created with.
yt_insert(j, o, now) ==
    /\ job[j].kind = "yt" /\ job[j].pc = "authed"
    /\ job' = [job EXCEPT
                 ![j].pc = IF o = "ok" THEN "uploaded" ELSE "except",
                 ![j].err = IF o = "ok" THEN @ ELSE "upload",
                 ![j].vid = IF o = "ok" THEN j ELSE @,
                 ![j].now = now,
                 ![j].dt = ParsedDt(job[j].publish_at),
                 ![j].steps = Append(@, "transfer"),
                 ![j].item = IF o = "ok"
                             THEN status_obj(job[j].privacy, job[j].publish_at, now)
                             ELSE @,
                 ![j].log = IF o = "ok"
                            THEN Append(@ \o ScheduleEvent(job[j].publish_at, now), "yt.done")
                            ELSE @ \o ScheduleEvent(job[j].publish_at, now)]
    /\ UNCHANGED <<file, minted, h, remote, wp_env, wp_pending, dl>>

\* A variant of yt_thumbnail without the inner try/except: a thumbnail failure
\* reaches the handler of the pipeline.
yt_thumbnail_fatal(j, o) ==
    /\ job[j].kind = "yt" /\ job[j].pc = "uploaded"
    /\ IF job[j].thumb
       THEN job' = [job EXCEPT
                      ![j].pc = IF o = "ok" THEN "thumbed" ELSE "except",
                      ![j].err = IF o = "ok" THEN @ ELSE "thumbnail",
                      ![j].tmp = IF o = "ok" THEN @ \ {"video"}
                                 ELSE IF o = "download_fail" THEN @ ELSE @ \cup {"thumb"},
                      ![j].steps = IF o = "ok" THEN @ \o <<"thumbnail", "cleanup">>
                                   ELSE Append(@, "thumbnail"),
                      ![j].log = IF o = "ok" THEN Append(@, "yt.thumb.done") ELSE @]
       ELSE /\ o = "ok"
            /\ job' = [job EXCEPT ![j].pc = "thumbed", ![j].tmp = @ \ {"video"},
                                  ![j].steps = Append(@, "cleanup")]
    /\ UNCHANGED <<file, minted, h, remote, wp_env, wp_pending, dl>>

\* Thumbnail (non-fatal), then os.remove(tmp).  The thumbnail download may
\* fail before or after thf is opened; thumbnails().set may fail, and then thf
\* is not removed.
ThumbOutcomes == {"ok", "download_fail", "download_fail_partial", "set_fail"}

yt_thumbnail(j, o) ==
    /\ job[j].kind = "yt" /\ job[j].pc = "uploaded"
    /\ IF job[j].thumb
       THEN job' = [job EXCEPT
                      ![j].pc = "thumbed",
                      ![j].tmp = (IF o \in {"download_fail_partial", "set_fail"}
                                  THEN @ \cup {"thumb"} ELSE @) \ {"video"},
                      ![j].paths = IF o = "download_fail" THEN @
                                   ELSE @ \cup {TmpPath("yt", j, "thumb")},
                      ![j].steps = @ \o <<"thumbnail", "cleanup">>,
                      ![j].log = Append(@, IF o = "ok" THEN "yt.thumb.done"
                                           ELSE "yt.thumb.error")]
       ELSE /\ o = "ok"
            /\ job' = [job EXCEPT ![j].pc = "thumbed", ![j].tmp = @ \ {"video"},
                                  ![j].steps = Append(@, "cleanup")]
    /\ UNCHANGED <<file, minted, h, remote, wp_env, wp_pending, dl>>

\* Bunny delete (optional, non-fatal): status 200, another status, or an
\* exception of requests.delete.
DeleteOutcomes == {"200", "500", "exception"}

BunnyEvent(o) ==
    IF o = "200" THEN "bunny.delete.success"
    ELSE IF o = "500" THEN "bunny.delete.failed"
    ELSE "bunny.delete.error"

\* A variant of yt_bunny_delete that sends the delete request whether or not
\* bunny_delete_url was supplied.
yt_bunny_delete_always(j, o) ==
    /\ job[j].kind = "yt" /\ job[j].pc = "thumbed"
    /\ job' = [job EXCEPT ![j].pc = "final", ![j].steps = Append(@, "delete"),
                          ![j].log = Append(@, BunnyEvent(o))]
    /\ UNCHANGED <<file, minted, h, remote, wp_env, wp_pending, dl>>

yt_bunny_delete(j, o) ==
    /\ job[j].kind = "yt" /\ job[j].pc = "thumbed"
    /\ IF job[j].bunny
       THEN job' = [job EXCEPT ![j].pc = "final", ![j].steps = Append(@, "delete"),
                                  ![j].log = Append(@, BunnyEvent(o))]
       ELSE /\ o = "200"
            /\ job' = [job EXCEPT ![j].pc = "final"]
    /\ UNCHANGED <<file, minted, h, remote, wp_env, wp_pending, dl>>

\* A writer between its read_json and the end of its write_json.
InFlight(pc) == pc \in {"final_open", "final_dump", "error_open", "error_dump"}

\* The terminal write of job j has landed: every other writer in flight has
\* read the document before it (missed records whose writes those are).
MarkMissed(jobs, j, landed) ==
    [k \in JobIds |->
        IF landed /\ k # j /\ InFlight(jobs[k].pc)
        THEN [jobs[k] EXCEPT !.missed = @ \cup {j}]
        ELSE jobs[k]]

MarkMissedHandler(hh, j, landed) ==
    IF landed /\ hh.pc \in {"yt_open", "yt_dump"}
    THEN [hh EXCEPT !.missed = @ \cup {j}]
    ELSE hh

\* A variant of yt_final_open that reads the document again as it opens it
\* for writing.
yt_final_open_reread(j) ==
    /\ job[j].kind = "yt" /\ job[j].pc = "final_open"
    /\ file' = write_open(file)
    /\ job' = [job EXCEPT ![j].pc = "final_dump",
                          ![j].st = [read_json(file) EXCEPT ![j] = job[j].st[j]]]
    /\ UNCHANGED <<minted, h, remote, wp_env, wp_pending, dl>>

\* st = read_json(YT_STATUS_FILE, dict); st[job_id] = {"state":"completed",...}
yt_final_read(j) ==
    /\ job[j].kind = "yt" /\ job[j].pc = "final"
    /\ job' = [job EXCEPT ![j].pc = "final_open",
                          ![j].missed = {},
                          ![j].steps = Append(@, "finalize"),
                          ![j].st = [read_json(file) EXCEPT ![j] =
                                        CompletedRecord(j, job[j].vid, job[j].channel)]]
    /\ UNCHANGED <<file, minted, h, remote, wp_env, wp_pending, dl>>

yt_final_open(j) ==
    /\ job[j].kind = "yt" /\ job[j].pc = "final_open"
    /\ file' = write_open(file)
    /\ job' = [job EXCEPT ![j].pc = "final_dump"]
    /\ UNCHANGED <<minted, h, remote, wp_env, wp_pending, dl>>

yt_final_dump(j) ==
    /\ job[j].kind = "yt" /\ job[j].pc = "final_dump"
    /\ file' \in write_dump(file, job[j].st)
    /\ job' = MarkMissed([job EXCEPT
                             ![j].pc = "done", ![j].st = EmptyMap,
                             ![j].landed = IF file'.kind = "json" THEN "completed" ELSE @,
                             ![j].log = Append(@, "yt.final")],
                          j, file'.kind = "json")
    /\ h' = MarkMissedHandler(h, j, file'.kind = "json")
    /\ UNCHANGED <<minted, remote, wp_env, wp_pending, dl>>

\* A variant of yt_except that logs the failure and runs the pipeline again.
yt_except_retry(j) ==
    /\ job[j].kind = "yt" /\ job[j].pc = "except"
    /\ job' = [job EXCEPT ![j].pc = "start", ![j].log = Append(@, "yt.error")]
    /\ UNCHANGED <<file, minted, h, remote, wp_env, wp_pending, dl>>

\* except Exception as e: log, read the document, set the error record.
yt_except(j) ==
    /\ job[j].kind = "yt" /\ job[j].pc = "except"
    /\ job' = [job EXCEPT ![j].pc = "error_open",
                          ![j].missed = {},
                          ![j].log = Append(@, "yt.error"),
                          ![j].st = [read_json(file) EXCEPT ![j] = ErrorRecord(job[j].err)]]
    /\ UNCHANGED <<file, minted, h, remote, wp_env, wp_pending, dl>>

yt_error_open(j) ==
    /\ job[j].kind = "yt" /\ job[j].pc = "error_open"
    /\ file' = write_open(file)
    /\ job' = [job EXCEPT ![j].pc = "error_dump"]
    /\ UNCHANGED <<minted, h, remote, wp_env, wp_pending, dl>>

yt_error_dump(j) ==
    /\ job[j].kind = "yt" /\ job[j].pc = "error_dump"
    /\ file' \in write_dump(file, job[j].st)
    /\ job' = MarkMissed([job EXCEPT
                             ![j].pc = "done", ![j].st = EmptyMap,
                             ![j].landed = IF file'.kind = "json" THEN "error" ELSE @],
                          j, file'.kind = "json")
    /\ h' = MarkMissedHandler(h, j, file'.kind = "json")
    /\ UNCHANGED <<minted, remote, wp_env, wp_pending, dl>>

\* write_json of the completed record raises (disk full, permissions): in
\* open, which leaves the file as it is, or in dump/flush/fsync after the
\* truncation, which may leave part of the document.  The except clause of
\* the pipeline catches it.
yt_final_write_fail(j) ==
    /\ job[j].kind = "yt" /\ job[j].pc \in {"final_open", "final_dump"}
    /\ file' \in IF job[j].pc = "final_open" THEN {file} ELSE {file, GarbageFile}
    /\ job' = [job EXCEPT ![j].pc = "except", ![j].err = "write", ![j].st = EmptyMap]
    /\ UNCHANGED <<minted, h, remote, wp_env, wp_pending, dl>>

\* write_json of the error record raises: the exception leaves the except
\* clause and ends the thread.
yt_error_write_fail(j) ==
    /\ job[j].kind = "yt" /\ job[j].pc \in {"error_open", "error_dump"}
    /\ file' \in IF job[j].pc = "error_open" THEN {file} ELSE {file, GarbageFile}
    /\ job' = [job EXCEPT ![j].pc = "done", ![j].st = EmptyMap]
    /\ UNCHANGED <<minted, h, remote, wp_env, wp_pending, dl>>

\* The steps of the worker that touch the status document.
yt_store_steps(j) ==
    \/ yt_final_read(j) \/ yt_final_open(j) \/ yt_final_dump(j)
    \/ yt_except(j) \/ yt_error_open(j) \/ yt_error_dump(j)

-----------------------------------------------------------------------------
\* WordPress helpers and workers (no local status file: WP is the ledger)

\* The media item WordPress creates from the upload POST of job j.  hay is
\* what the description, title and caption hold: the stamp job:<j> of the
\* description, and the job id the caller's title mentions, if any.
Token(job_id) == <<"job:", job_id>>

\* A variant of Description that sends the description without the stamp.
Description_unstamped(j) == {}

Description(j) == {Token(j)}

TitleText(title_ref) == IF title_ref = NoJob THEN {} ELSE {<<"text", title_ref>>}

Item(j, aid) ==
    [aid |-> aid, source_url |-> <<"https://wp/", aid>>,
     hay |-> Description(j) \cup TitleText(job[j].title_ref)]

\* token in hay: the stamp job:<id> occurs in the text
TokenInHay(job_id, hay) == Token(job_id) \in hay

\* job_id in hay: the id occurs in the text, inside a stamp or on its own
IdInHay(job_id, hay) == \E a \in hay : a[2] = job_id

Created(j) == <<Item(j, Len(remote) + 1)>> \o remote

WpEvent(kind, e) ==
    IF kind = "wp"
    THEN (IF e = "start" THEN "wp.start" ELSE IF e = "done" THEN "wp.done"
          ELSE IF e = "timeout" THEN "wp.timeout"
          ELSE IF e = "meta.error" THEN "wp.meta.error" ELSE "wp.error")
    ELSE (IF e = "start" THEN "wpimg.start" ELSE IF e = "done" THEN "wpimg.done"
          ELSE IF e = "timeout" THEN "wpimg.timeout"
          ELSE IF e = "meta.error" THEN "wpimg.meta.error" ELSE "wpimg.error")

\* 1) streamed_download; on failure: except (log) and finally (remove tmp).
wp_download(j, o) ==
    /\ job[j].kind \in {"wp", "wpimg"} /\ job[j].pc = "start"
    /\ job' = [job EXCEPT
                 ![j].pc = IF o = "ok" THEN "downloaded" ELSE "done",
                 ![j].err = IF o = "ok" THEN @ ELSE "download",
                 ![j].tmp = IF o = "ok" THEN {"wp"} ELSE {},
                 ![j].paths = @ \cup {TmpPath(job[j].kind, j, "video")},
                 ![j].log = IF o = "ok" THEN Append(@, WpEvent(job[j].kind, "start"))
                            ELSE Append(Append(@, WpEvent(job[j].kind, "start")),
                                        WpEvent(job[j].kind, "error"))]
    /\ UNCHANGED <<file, minted, h, remote, wp_env, wp_pending, dl>>

\* 2) wp_api_base(), wp_auth() and the multipart POST to {api}/media, with the
\* branch on resp.status_code, the optional metadata patch and the finally.
\*   "201"       created: the item is listed
\*   "504"       proxy timeout: WordPress may still finish
\*   "500"       any other status: nothing is created
\*   "exception" requests.post raised (connection error, timeout)
PostOutcomes == {"201", "504", "500", "exception"}

\* A variant of Classify without the 504 branch: a 504 is any other status.
Classify_no_504(configured, o) ==
    IF ~configured \/ o \in {"500", "exception", "504"} THEN "error"
    ELSE "done"

\* The branch of the worker on the outcome of the POST: "done" for 201,
\* "timeout" for 504, "error" for any other status and for an exception
\* (a missing WP_API_BASE/WP_USER/WP_APP_PASSWORD raises before the request).
Classify(configured, o) ==
    IF ~configured \/ o \in {"500", "exception"} THEN "error"
    ELSE IF o = "504" THEN "timeout"
    ELSE "done"

wp_post(j, o, patch) ==
    LET k == job[j].kind
        sent == wp_env /\ o # "exception"
        branch == Classify(wp_env, o)
    IN
    /\ k \in {"wp", "wpimg"} /\ job[j].pc = "downloaded"
    /\ (patch = "fail") => (wp_env /\ o = "201" /\ job[j].meta)
    /\ job' = [job EXCEPT
                 ![j].pc = "done",
                 ![j].tmp = {},
                 ![j].post = IF sent THEN o ELSE @,
                 ![j].err = IF branch # "error" THEN @
                            ELSE IF ~wp_env THEN "config" ELSE "upload",
                 ![j].log = IF patch = "fail"
                            THEN Append(Append(@, WpEvent(k, branch)), WpEvent(k, "meta.error"))
                            ELSE Append(@, WpEvent(k, branch))]
    /\ remote' = IF wp_env /\ o = "201" THEN Created(j) ELSE remote
    /\ wp_pending' = IF wp_env /\ o = "504" THEN wp_pending \cup {j} ELSE wp_pending
    /\ UNCHANGED <<file, minted, h, wp_env, dl>>

\* WordPress finishes an upload whose response the proxy cut off.
wp_finish(j) ==
    /\ j \in wp_pending
    /\ remote' = Created(j)
    /\ wp_pending' = wp_pending \ {j}
    /\ UNCHANGED <<file, minted, job, h, wp_env, dl>>

-----------------------------------------------------------------------------
\* POST /upload-to-wordpress and POST /upload-image-to-wordpress

\* Validation, uuid4 and threading.Thread(...).start()
Admit(ep, url, meta, title_ref) ==
    /\ h.pc = "idle"
    /\ IF ~Truthy(url)
       THEN /\ h' = [IdleH EXCEPT !.pc = "responded", !.ep = ep, !.req.video_url = url,
                                  !.resp = [code |-> 400]]
            /\ UNCHANGED <<minted, job>>
       ELSE /\ minted + 1 \in JobIds
            /\ title_ref <= minted
            /\ LET job_id == minted + 1 IN
               /\ minted' = job_id
               /\ job' = [job EXCEPT ![job_id] =
                            [IdleJob EXCEPT !.kind = ep, !.pc = "start", !.meta = meta,
                                            !.title_ref = title_ref]]
               /\ h' = [IdleH EXCEPT !.pc = "wp_return", !.ep = ep, !.req.video_url = url,
                                     !.jid = job_id]
    /\ UNCHANGED <<file, remote, wp_env, wp_pending, dl>>

upload_wp(video_url, meta, title_ref) == Admit("wp", video_url, meta, title_ref)

\* file_url = d.get("file_url") or d.get("image_url") or d.get("video_url")
Or3(a, b, c) == IF Truthy(a) THEN a ELSE IF Truthy(b) THEN b ELSE c

upload_wp_image(file_url, image_url, video_url, meta, title_ref) ==
    Admit("wpimg", Or3(file_url, image_url, video_url), meta, title_ref)

\* return jsonify({"status":"processing","job_id":job_id}), 202
upload_wp_return ==
    /\ h.pc = "wp_return"
    /\ h' = [h EXCEPT !.pc = "responded",
                      !.resp = [code |-> 202, status |-> "processing", job_id |-> h.jid]]
    /\ UNCHANGED <<file, minted, job, remote, wp_env, wp_pending, dl>>

-----------------------------------------------------------------------------
\* GET /wp-status-by-job

\* per_page of both listing requests
PerPage == 20

Page(items) == SubSeq(items, 1, IF Len(items) < PerPage THEN Len(items) ELSE PerPage)

\* The items of `remote` at the positions in S, in listing order.
RECURSIVE Pick(_, _, _)
Pick(items, S, i) ==
    IF i > Len(items) THEN <<>>
    ELSE (IF i \in S THEN <<items[i]>> ELSE <<>>) \o Pick(items, S, i + 1)

match(m, job_id) == TokenInHay(job_id, m.hay) \/ IdInHay(job_id, m.hay)

\* A variant of FirstMatch that keeps the last matching item.
FirstMatch_last(items, job_id, i) ==
    LET M == {k \in i..Len(items) : match(items[k], job_id)}
    IN  IF M = {} THEN 0 ELSE CHOOSE k \in M : \A l \in M : l <= k

\* for m in r.json(): if match(m): return ... 200
RECURSIVE FirstMatch(_, _, _)
FirstMatch(items, job_id, i) ==
    IF i > Len(items) THEN 0
    ELSE IF match(items[i], job_id) THEN i
    ELSE FirstMatch(items, job_id, i + 1)

Found(m) ==
    [code |-> 200, state |-> "completed", attachment_id |-> m.aid,
     source_url |-> m.source_url]

LookupError == [code |-> 500, state |-> "error"]

\* What the search request can return: any part of the listing when it is
\* made and succeeds.
LookupResults(job_id, o) ==
    IF job_id # NoJob /\ wp_env /\ o = "ok" THEN SUBSET (1..Len(remote)) ELSE {{}}

\* What a listing request gave: raise_for_status passed and the items of
\* r.json(), or the request failed.  h.passes holds the responses of the
\* requests the lookup has made.
Response(ok, items) == [ok |-> ok, items |-> items]

\* Parameter check, wp_api_base()/wp_auth(), and pass 1: the search request.
\* o is the outcome of the request, S the positions of the listing that the
\* search (a remote full-text index, possibly lagging) returns.
wp_status_by_job(job_id, o, S) ==
    LET r == Page(Pick(remote, S, 1))
        i == FirstMatch(r, job_id, 1)
    IN
    /\ h.pc = "idle"
    /\ S \subseteq 1..Len(remote)
    /\ h' = IF job_id = NoJob
            THEN [IdleH EXCEPT !.pc = "responded", !.ep = "wpstatus", !.resp = [code |-> 400]]
            ELSE IF ~wp_env
            THEN [IdleH EXCEPT !.pc = "responded", !.ep = "wpstatus", !.jid = job_id,
                               !.resp = LookupError]
            ELSE IF o = "fail"
            THEN [IdleH EXCEPT !.pc = "responded", !.ep = "wpstatus", !.jid = job_id,
                               !.resp = LookupError, !.passes = <<Response(FALSE, <<>>)>>]
            ELSE IF i # 0
            THEN [IdleH EXCEPT !.pc = "responded", !.ep = "wpstatus", !.jid = job_id,
                               !.resp = Found(r[i]), !.passes = <<Response(TRUE, r)>>]
            ELSE [IdleH EXCEPT !.pc = "wp_pass2", !.ep = "wpstatus", !.jid = job_id,
                               !.passes = <<Response(TRUE, r)>>]
    /\ UNCHANGED <<file, minted, job, remote, wp_env, wp_pending, dl>>

\* A variant of wp_status_pass2 that treats a failed request as an empty
\* response.
wp_status_pass2_swallow(o) ==
    LET r2 == IF o = "fail" THEN <<>> ELSE Page(remote)
        i == FirstMatch(r2, h.jid, 1)
    IN
    /\ h.pc = "wp_pass2"
    /\ h' = [h EXCEPT !.pc = "responded",
                      !.passes = Append(@, IF o = "fail" THEN Response(FALSE, <<>>)
                                           ELSE Response(TRUE, r2)),
                      !.resp = IF i # 0 THEN Found(r2[i])
                               ELSE [code |-> 202, state |-> "processing",
                                     note |-> "not found yet"]]
    /\ UNCHANGED <<file, minted, job, remote, wp_env, wp_pending, dl>>

\* A variant of wp_status_pass2 that records a found job as completed in
\* the local status document.
wp_status_pass2_record(o) ==
    LET r2 == Page(remote)
        i == FirstMatch(r2, h.jid, 1)
    IN
    /\ h.pc = "wp_pass2"
    /\ h' = [h EXCEPT !.pc = "responded",
                      !.passes = Append(@, IF o = "fail" THEN Response(FALSE, <<>>)
                                           ELSE Response(TRUE, r2)),
                      !.resp = IF o = "fail" THEN LookupError
                               ELSE IF i # 0 THEN Found(r2[i])
                               ELSE [code |-> 202, state |-> "processing",
                                     note |-> "not found yet"]]
    /\ file' = IF o # "fail" /\ i # 0 /\ h.jid \in JobIds
               THEN JsonFile([read_json(file) EXCEPT ![h.jid] = [state |-> "completed"]])
               ELSE file
    /\ UNCHANGED <<minted, job, remote, wp_env, wp_pending, dl>>

\* Pass 2: the most recent items.
wp_status_pass2(o) ==
    LET r2 == Page(remote)
        i == FirstMatch(r2, h.jid, 1)
    IN
    /\ h.pc = "wp_pass2"
    /\ h' = [h EXCEPT !.pc = "responded",
                      !.passes = Append(@, IF o = "fail" THEN Response(FALSE, <<>>)
                                           ELSE Response(TRUE, r2)),
                      !.resp = IF o = "fail" THEN LookupError
                               ELSE IF i # 0 THEN Found(r2[i])
                               ELSE [code |-> 202, state |-> "processing",
                                     note |-> "not found yet"]]
    /\ UNCHANGED <<file, minted, job, remote, wp_env, wp_pending, dl>>

-----------------------------------------------------------------------------
\* youtube_upload.py: upload_to_youtube(video_url, title, description, ...)
\* Call i of the function runs in its own thread.  Every call uses the same
\* two paths; label is in job[k].tmp when the file exists and call k was the
\* last to open it for writing.

Standalone(k) == job[k].kind = "standalone"

Exists(label) == \E k \in JobIds : Standalone(k) /\ label \in job[k].tmp

\* os.remove(path)
Removed(jobs, label) ==
    [k \in JobIds |->
        IF jobs[k].kind = "standalone" THEN [jobs[k] EXCEPT !.tmp = @ \ {label}]
        ELSE jobs[k]]

\* open(path, "wb") by call i
Opened(jobs, i, label) ==
    [k \in JobIds |->
        IF k = i THEN [jobs[k] EXCEPT !.tmp = @ \cup {label}]
        ELSE IF jobs[k].kind = "standalone" THEN [jobs[k] EXCEPT !.tmp = @ \ {label}]
        ELSE jobs[k]]

\* The call, and: if os.path.exists("temp_video.mp4"): os.remove(...)
upload_to_youtube(i, thumb, bunny) ==
    /\ job[i].kind = "none"
    /\ \A k \in 1..(i - 1) : job[k].kind # "none"
    /\ job' = Removed([job EXCEPT ![i] =
                         [IdleJob EXCEPT !.kind = "standalone", !.pc = "start",
                                         !.thumb = thumb, !.bunny = bunny,
                                         !.paths = {TmpPath("standalone", i, "video")}]],
                      "video")
    /\ UNCHANGED <<file, minted, h, remote, wp_env, wp_pending, dl>>

\* requests.get, raise_for_status, open(temp_file, "wb"), iter_content
upload_to_youtube_download(i, o) ==
    /\ Standalone(i) /\ job[i].pc = "start"
    /\ job' = LET next == [job EXCEPT
                             ![i].pc = IF o = "ok" THEN "downloaded" ELSE "done",
                             ![i].err = IF o = "ok" THEN @ ELSE "download"]
              IN  IF o = "fail" THEN next ELSE Opened(next, i, "video")
    /\ UNCHANGED <<file, minted, h, remote, wp_env, wp_pending, dl>>

\* get_authenticated_service(), MediaFileUpload(temp_file), videos().insert
\* and the next_chunk loop; MediaFileUpload raises when temp_file is absent.
upload_to_youtube_insert(i, o) ==
    /\ Standalone(i) /\ job[i].pc = "downloaded"
    /\ job' = IF ~Exists("video")
              THEN [job EXCEPT ![i].pc = "done", ![i].err = "no temp_video.mp4"]
              ELSE [job EXCEPT
                      ![i].pc = IF o = "ok" THEN "uploaded" ELSE "done",
                      ![i].err = IF o = "ok" THEN @ ELSE "upload",
                      ![i].vid = IF o = "ok" THEN i ELSE @,
                      ![i].sent = IF "video" \in job[i].tmp THEN i
                                  ELSE CHOOSE k \in JobIds :
                                          Standalone(k) /\ "video" \in job[k].tmp]
    /\ UNCHANGED <<file, minted, h, remote, wp_env, wp_pending, dl>>

\* Optional thumbnail inside try/except: download to thumb_file,
\* thumbnails().set, os.remove(thumb_file).
upload_to_youtube_thumbnail(i, o) ==
    /\ Standalone(i) /\ job[i].pc = "uploaded"
    /\ IF job[i].thumb
       THEN job' = LET next == [job EXCEPT
                                  ![i].pc = "thumbed",
                                  ![i].paths = IF o = "download_fail" THEN @
                                               ELSE @ \cup {TmpPath("standalone", i, "thumb")}]
                   IN  IF o = "download_fail" THEN next
                       ELSE IF o = "ok" THEN Removed(next, "thumb")
                       ELSE Opened(next, i, "thumb")
       ELSE /\ o = "ok"
            /\ job' = [job EXCEPT ![i].pc = "thumbed"]
    /\ UNCHANGED <<file, minted, h, remote, wp_env, wp_pending, dl>>

\* os.remove(temp_file), outside any try: raises when the file is absent.
upload_to_youtube_remove(i) ==
    /\ Standalone(i) /\ job[i].pc = "thumbed"
    /\ job' = IF Exists("video")
              THEN Removed([job EXCEPT ![i].pc = "final"], "video")
              ELSE [job EXCEPT ![i].pc = "done", ![i].err = "no temp_video.mp4"]
    /\ UNCHANGED <<file, minted, h, remote, wp_env, wp_pending, dl>>

\* Optional Bunny delete inside try/except, then return the URL.
upload_to_youtube_bunny(i, o) ==
    /\ Standalone(i) /\ job[i].pc = "final"
    /\ IF job[i].bunny
       THEN job' = [job EXCEPT ![i].pc = "done", ![i].log = Append(@, BunnyEvent(o))]
       ELSE /\ o = "200"
            /\ job' = [job EXCEPT ![i].pc = "done"]
    /\ UNCHANGED <<file, minted, h, remote, wp_env, wp_pending, dl>>

-----------------------------------------------------------------------------
\* Specifications

\* The steps of upload_youtube after its first.
upload_youtube_steps ==
    \/ upload_youtube_open
    \/ upload_youtube_dump
    \/ upload_youtube_start
    \/ upload_youtube_return

\* Spec: the whole service with WordPress configured, MaxJobs admissions of
\* any kind, workers and handler interleaved.  Its YouTube jobs carry no
\* thumbnail_url and no bunny_delete_url and fail only in the download, its
\* WordPress jobs carry no alt_text/post_id and a title that mentions no id.
Next ==
    \/ /\ \E v \in FieldValues, t \in FieldValues, d \in FieldValues :
            upload_youtube(v, t, d, FALSE, FALSE, <<>>, "unlisted", NoPublishAt)
       /\ minted' <= MaxJobs
    \/ /\ \E v \in FieldValues : upload_wp(v, FALSE, NoJob)
       /\ minted' <= MaxJobs
    \/ /\ \E f \in FieldValues, v \in FieldValues :
            upload_wp_image(f, "None", v, FALSE, NoJob)
       /\ minted' <= MaxJobs
    \/ upload_youtube_steps
    \/ upload_wp_return
    \/ finish
    \/ \E q \in QueryIds : yt_status(q)
    \/ \E q \in QueryIds, o \in CallOutcomes :
         \E S \in LookupResults(q, o) : wp_status_by_job(q, o, S)
    \/ \E o \in CallOutcomes : wp_status_pass2(o)
    \/ \E j \in JobIds :
         \/ \E o \in {"ok", "fail"} : yt_download(j, o)
         \/ yt_service(j, "ok")
         \/ yt_insert(j, "ok", 0)
         \/ yt_thumbnail(j, "ok")
         \/ yt_bunny_delete(j, "200")
         \/ yt_store_steps(j)
         \/ \E o \in {"ok", "fail"} : wp_download(j, o)
         \/ \E o \in {"201", "504", "500"} : wp_post(j, o, "ok")
         \/ wp_finish(j)

InitConfigured == Init /\ wp_env = TRUE

Spec == InitConfigured /\ [][Next]_vars

\* SpecPipeline: one job of any kind, with every input and every outcome of
\* every step, the WordPress configuration present or missing.
NextPipeline ==
    \/ /\ minted = 0
       /\ \/ \E v \in FieldValues, t \in FieldValues, d \in FieldValues,
                thumb \in BOOLEAN, bunny \in BOOLEAN, loc \in Locations :
                  upload_youtube(v, t, d, thumb, bunny, loc, "unlisted", NoPublishAt)
          \/ \E v \in FieldValues, meta \in BOOLEAN : upload_wp(v, meta, NoJob)
          \/ \E f \in FieldValues, i \in FieldValues, v \in FieldValues, meta \in BOOLEAN :
                  upload_wp_image(f, i, v, meta, NoJob)
    \/ upload_youtube_steps
    \/ upload_wp_return
    \/ finish
    \/ \E q \in QueryIds : yt_status(q)
    \/ \E q \in QueryIds, o \in CallOutcomes :
         \E S \in LookupResults(q, o) : wp_status_by_job(q, o, S)
    \/ \E o \in CallOutcomes : wp_status_pass2(o)
    \/ \E j \in JobIds :
         \/ \E o \in DownloadOutcomes : yt_download(j, o)
         \/ \E o \in CallOutcomes : yt_service(j, o)
         \/ \E o \in CallOutcomes : yt_insert(j, o, 0)
         \/ \E o \in ThumbOutcomes : yt_thumbnail(j, o)
         \/ \E o \in DeleteOutcomes : yt_bunny_delete(j, o)
         \/ yt_store_steps(j)
         \/ \E o \in {"ok", "fail"} : wp_download(j, o)
         \/ \E o \in PostOutcomes, patch \in CallOutcomes : wp_post(j, o, patch)
         \/ wp_finish(j)

SpecPipeline == Init /\ [][NextPipeline]_vars

\* SpecSchedule: one YouTube job with every privacy and publish_at, the
\* scheduling decision taken at every clock reading.
NextSchedule ==
    \/ /\ minted = 0
       /\ \E d \in FieldValues, privacy \in PrivacyValues, publish_at \in PublishAtValues :
             upload_youtube("x", "x", d, FALSE, FALSE, <<>>, privacy, publish_at)
    \/ upload_youtube_steps
    \/ finish
    \/ \E q \in QueryIds : yt_status(q)
    \/ \E j \in JobIds :
         \/ yt_download(j, "ok")
         \/ yt_service(j, "ok")
         \/ \E o \in CallOutcomes, now \in Clock : yt_insert(j, o, now)
         \/ yt_thumbnail(j, "ok")
         \/ yt_bunny_delete(j, "200")
         \/ yt_store_steps(j)

SpecSchedule == Init /\ [][NextSchedule]_vars

\* SpecParse: one YouTube job whose publish_at is any of PublishAtTexts.
NextParse ==
    \/ /\ minted = 0
       /\ \E t \in PublishAtTexts :
             upload_youtube("x", "x", "x", FALSE, FALSE, <<>>, "public", ReadPublishAt(t))
    \/ upload_youtube_steps
    \/ finish
    \/ \E j \in JobIds :
         \/ yt_download(j, "ok")
         \/ yt_service(j, "ok")
         \/ \E now \in Clock : yt_insert(j, "ok", now)
         \/ yt_thumbnail(j, "ok")
         \/ yt_bunny_delete(j, "200")
         \/ yt_final_read(j)
         \/ yt_final_open(j)
         \/ yt_final_dump(j)

SpecParse == Init /\ [][NextParse]_vars

\* SpecChannel: one YouTube job with every location of LocationTexts, its
\* upload succeeding or failing, and the status endpoint.
NextChannel ==
    \/ /\ minted = 0
       /\ \E loc \in LocationTexts :
             upload_youtube("x", "x", "x", FALSE, FALSE, loc, "unlisted", NoPublishAt)
    \/ upload_youtube_steps
    \/ finish
    \/ \E q \in QueryIds : yt_status(q)
    \/ \E j \in JobIds :
         \/ yt_download(j, "ok")
         \/ yt_service(j, "ok")
         \/ \E o \in CallOutcomes : yt_insert(j, o, 0)
         \/ yt_thumbnail(j, "ok")
         \/ yt_bunny_delete(j, "200")
         \/ yt_store_steps(j)

SpecChannel == Init /\ [][NextChannel]_vars

\* SpecDisk: one YouTube job, with or without bunny_delete_url, whose writes
\* of the status document by the worker may fail.
NextDisk ==
    \/ /\ minted = 0
       /\ \E bunny \in BOOLEAN :
             upload_youtube("x", "x", "x", FALSE, bunny, <<>>, "unlisted", NoPublishAt)
    \/ upload_youtube_steps
    \/ finish
    \/ \E q \in QueryIds : yt_status(q)
    \/ \E j \in JobIds :
         \/ yt_download(j, "ok")
         \/ yt_service(j, "ok")
         \/ \E o \in CallOutcomes : yt_insert(j, o, 0)
         \/ yt_thumbnail(j, "ok")
         \/ \E o \in DeleteOutcomes : yt_bunny_delete(j, o)
         \/ yt_store_steps(j)
         \/ yt_final_write_fail(j)
         \/ yt_error_write_fail(j)

SpecDisk == Init /\ [][NextDisk]_vars

\* SpecStore: MaxStoreJobs valid YouTube admissions whose pipelines succeed,
\* the writers of the status document interleaved.
NextStore ==
    \/ upload_youtube("x", "x", "x", FALSE, FALSE, <<>>, "unlisted", NoPublishAt)
    \/ upload_youtube_steps
    \/ finish
    \/ \E j \in JobIds :
         \/ yt_download(j, "ok")
         \/ yt_service(j, "ok")
         \/ yt_insert(j, "ok", 0)
         \/ yt_thumbnail(j, "ok")
         \/ yt_bunny_delete(j, "200")
         \/ yt_final_read(j)
         \/ yt_final_open(j)
         \/ yt_final_dump(j)

SpecStore == Init /\ [][NextStore]_vars

\* SpecWP: MaxJobs WordPress admissions whose titles may mention an earlier
\* job id, the workers, the remote listing and the lookup, the WordPress
\* configuration present or missing.
NextWP ==
    \/ /\ \E v \in FieldValues, tr \in 0..MaxJobs : upload_wp(v, FALSE, tr)
       /\ minted' <= MaxJobs
    \/ /\ \E f \in FieldValues, v \in FieldValues, tr \in 0..MaxJobs :
            upload_wp_image(f, "None", v, FALSE, tr)
       /\ minted' <= MaxJobs
    \/ upload_wp_return
    \/ finish
    \/ \E q \in QueryIds, o \in CallOutcomes :
         \E S \in LookupResults(q, o) : wp_status_by_job(q, o, S)
    \/ \E o \in CallOutcomes : wp_status_pass2(o)
    \/ \E j \in JobIds :
         \/ \E o \in {"ok", "fail"} : wp_download(j, o)
         \/ \E o \in PostOutcomes : wp_post(j, o, "ok")
         \/ wp_finish(j)

SpecWP == Init /\ [][NextWP]_vars

\* SpecStandalone: MaxJobs concurrent calls of
\* youtube_upload.upload_to_youtube, with every outcome of every step.
NextStandalone ==
    \E i \in 1..MaxJobs :
        \/ \E thumb \in BOOLEAN, bunny \in BOOLEAN : upload_to_youtube(i, thumb, bunny)
        \/ \E o \in DownloadOutcomes : upload_to_youtube_download(i, o)
        \/ \E o \in CallOutcomes : upload_to_youtube_insert(i, o)
        \/ \E o \in ThumbOutcomes : upload_to_youtube_thumbnail(i, o)
        \/ upload_to_youtube_remove(i)
        \/ \E o \in DeleteOutcomes : upload_to_youtube_bunny(i, o)

SpecStandalone == Init /\ [][NextStandalone]_vars

\* SpecDownload: one call of streamed_download for every body of 1..MaxTotal
\* bytes, delivered in chunks of every size, with Content-Length present
\* (and equal to the size of the body) or absent.
NextDownload ==
    \/ \E body \in 1..MaxTotal, total \in 0..MaxTotal : streamed_download(total, body)
    \/ \E c \in 0..MaxTotal : streamed_download_chunk(c)
    \/ streamed_download_return

SpecDownload == Init /\ [][NextDownload]_vars

-----------------------------------------------------------------------------
\* Properties

Terminal(r) == r.state \in {"completed", "error"}

\* The record a reader of the status document gets for job_id.
Rec(job_id) == Get(read_json(file), job_id)

Missing(v) == v = "None" \/ v = ""

Admission(ep) == ep \in {"yt", "wp", "wpimg"}

ValidRequest(x) ==
    IF x.ep = "yt"
    THEN ~Missing(x.req.video_url) /\ ~Missing(x.req.title) /\ ~Missing(x.req.description)
    ELSE ~Missing(x.req.video_url)

Has(log, ev) == \E i \in 1..Len(log) : log[i] = ev

Count(log, ev) == Cardinality({i \in 1..Len(log) : log[i] = ev})

\* C1: once the record of a YouTube job has reached completed or error in
\* the status document, every later complete document holds that job's record
\* with the same state.
C1_TerminalStateStays ==
    \A j \in JobIds :
        (job[j].landed # "" /\ file.kind = "json") => file.data[j].state = job[j].landed

\* C2: a valid admission request is answered 202 with the job id minted for
\* it and its worker started, and no step of the handler between the minting
\* and the response waits for a worker: each is enabled whatever the workers
\* have or have not done.
C2_NonBlockingAdmission ==
    /\ h.pc \in {"yt_open", "yt_dump", "yt_start", "yt_return", "wp_return"}
          => ENABLED (upload_youtube_steps \/ upload_wp_return)
    /\ (h.pc = "responded" /\ Admission(h.ep) /\ ValidRequest(h))
          => /\ h.resp.code = 202
             /\ h.resp.status = "processing"
             /\ h.resp.job_id = minted
             /\ job[minted].kind = h.ep
             /\ job[minted].pc \notin {"none", "unstarted"}

\* C2 witness: the 202 has been produced and the worker of that job has not
\* taken its first step.
C2_Witness ==
    /\ h.pc = "responded" /\ h.ep = "yt" /\ h.resp.code = 202
    /\ job[h.resp.job_id].pc = "start"
    /\ Rec(h.resp.job_id).state = "processing"

\* C3: a request to /upload-to-youtube with video_url, title or description
\* missing or empty is answered 400, mints no job id, leaves the status
\* document unchanged and starts no worker.
C3_AdmissionError ==
    [][ (h.pc = "idle" /\ h'.ep = "yt"
            /\ (Missing(h'.req.video_url) \/ Missing(h'.req.title)
                    \/ Missing(h'.req.description)))
        => (/\ h'.pc = "responded"
            /\ h'.resp = [code |-> 400]
            /\ minted' = minted
            /\ file' = file
            /\ job' = job) ]_vars

\* C3 witness: a 400 answered while the store already holds a record.
C3_Witness ==
    /\ h.pc = "responded" /\ h.ep = "yt" /\ h.resp.code = 400
    /\ h.req.video_url = "x" /\ Missing(h.req.title)
    /\ minted = 1 /\ Rec(1).state = "processing"

NeverAdmitted(job_id) == job_id > minted

Mentioned(job_id) == \E i \in 1..Len(remote) : IdInHay(job_id, remote[i].hay)

\* C4 as claimed: every status endpoint answers 404 for a job id that was
\* never admitted.
C4_NeverAdmitted404 ==
    (h.pc = "responded" /\ h.ep \in {"status", "wpstatus"}
        /\ h.jid # NoJob /\ NeverAdmitted(h.jid))
    => h.resp.code = 404

\* C4 amended: for a job id that was never admitted /status-check answers
\* 404, and /wp-status-by-job, which has no record of admissions, never does:
\* it answers 202 processing, 500 when a lookup request fails, and 200 only
\* when a listed item mentions that id.
C4_NeverAdmittedAnswers ==
    (h.pc = "responded" /\ h.jid # NoJob /\ NeverAdmitted(h.jid))
    => /\ h.ep = "status" => h.resp = [code |-> 404]
       /\ h.ep = "wpstatus" =>
            \/ h.resp = [code |-> 202, state |-> "processing", note |-> "not found yet"]
            \/ h.resp = LookupError
            \/ h.resp.code = 200 /\ Mentioned(h.jid)

\* C4 witness: /wp-status-by-job has answered 202 for an id that was never
\* admitted, with a store and a listing that are not empty.
C4_Witness ==
    /\ h.pc = "responded" /\ h.ep = "wpstatus" /\ NeverAdmitted(h.jid)
    /\ h.resp.code = 202
    /\ Len(remote) > 0
    /\ \E j \in JobIds : Rec(j) # NoRec

\* C5: once the record of a YouTube job has become completed in the status
\* document, every /status-check for it answers 200 with that completed
\* record, and /status-check never writes the document.
C5_IdempotentStatus ==
    [][ (h.pc = "idle" /\ h'.ep = "status")
        => /\ file' = file
           /\ \A j \in JobIds :
                (h'.jid = j /\ job[j].landed = "completed")
                => h'.resp = [code |-> 200,
                              body |-> CompletedRecord(j, job[j].vid, job[j].channel)] ]_vars

IsYt(j) == job[j].kind = "yt"

IsWp(j) == job[j].kind \in {"wp", "wpimg"}

\* The handler produces the response of a request in this step.
Answers(ep) == h.pc # "responded" /\ h'.pc = "responded" /\ h'.ep = ep

\* Every listed item carries exactly one stamp, job:<job_id> of the WordPress
\* job whose POST created it, and every POST answered 201 is listed.
Stamping ==
    /\ \A i \in 1..Len(remote) :
         \E j \in JobIds :
            /\ IsWp(j) /\ job[j].post \in {"201", "504"}
            /\ {a \in remote[i].hay : a[1] = "job:"} = {Token(j)}
    /\ \A j \in JobIds :
         (IsWp(j) /\ job[j].post = "201")
            => \E i \in 1..Len(remote) : TokenInHay(j, remote[i].hay)

TimedOut(j) == IsWp(j) /\ job[j].post = "504"

C8_FatalError ==
    \A j \in JobIds :
        (IsYt(j) /\ job[j].err # "") =>
            /\ job[j].err \in {"download", "auth", "upload"}
            /\ job[j].vid = 0
            /\ job[j].pc \in {"except", "error_open", "error_dump", "done"}
            /\ \A ev \in {"yt.done", "yt.thumb.done", "yt.thumb.error", "bunny.delete.success",
                          "bunny.delete.failed", "bunny.delete.error", "yt.final"} :
                  ~Has(job[j].log, ev)
            /\ Count(job[j].log, "yt.start") = 1
            /\ Count(job[j].log, "yt.error") <= 1
            /\ job[j].pc \in {"error_open", "error_dump"} =>
                  /\ job[j].st[j].state = "error"
                  /\ job[j].st[j].error = job[j].err
            /\ job[j].pc = "done" =>
                  /\ Rec(j).state = "error"
                  /\ Rec(j).error = job[j].err

\* C8 witness: a worker whose upload failed has ended and the store holds
\* its error record.
C8_Witness ==
    \E j \in JobIds :
        /\ IsYt(j) /\ job[j].pc = "done" /\ job[j].err = "upload"
        /\ Rec(j).state = "error"

FailedFatally(j) == job[j].pc = "done" /\ job[j].err # ""

\* C9: a poll of the status endpoint of its domain, for a job whose pipeline
\* has failed fatally, returns an error outcome.
C9_FailureVisible ==
    [][ \A j \in JobIds :
          /\ (Answers("status") /\ h'.jid = j /\ IsYt(j) /\ FailedFatally(j))
                => (h'.resp.code = 200 /\ h'.resp.body.state = "error")
          /\ (Answers("wpstatus") /\ h'.jid = j /\ IsWp(j) /\ FailedFatally(j))
                => h'.resp.state = "error" ]_vars

BunnyEvents == {"bunny.delete.success", "bunny.delete.failed", "bunny.delete.error"}

\* C10: after the primary upload has succeeded, no outcome of the thumbnail
\* step or of the source delete takes the worker to the error path: it goes on
\* to write the completed record with youtube_url, which the store of the
\* one-job run then holds, and the delete is attempted whatever the thumbnail
\* step did.
C10_SideEffectsNonFatal ==
    \A j \in JobIds :
        (IsYt(j) /\ job[j].vid # 0) =>
            /\ job[j].err = ""
            /\ job[j].pc \in {"uploaded", "thumbed", "final", "final_open", "final_dump", "done"}
            /\ (job[j].thumb /\ job[j].pc # "uploaded") =>
                  (Has(job[j].log, "yt.thumb.done") \/ Has(job[j].log, "yt.thumb.error"))
            /\ (job[j].bunny /\ job[j].pc \notin {"uploaded", "thumbed"}) =>
                  \E ev \in BunnyEvents : Count(job[j].log, ev) = 1
            /\ job[j].pc \in {"final_open", "final_dump"} =>
                  /\ job[j].st[j].state = "completed"
                  /\ job[j].st[j].youtube_url = YoutubeUrl(job[j].vid)
            /\ job[j].pc = "done" =>
                  /\ Rec(j).state = "completed"
                  /\ Rec(j).youtube_url = YoutubeUrl(job[j].vid)

\* C10 witness: the thumbnail step and the source delete both failed and the
\* job ended completed.
C10_Witness ==
    \E j \in JobIds :
        /\ IsYt(j) /\ job[j].pc = "done"
        /\ Has(job[j].log, "yt.thumb.error") /\ Has(job[j].log, "bunny.delete.error")
        /\ Rec(j).state = "completed"

\* C11: when the worker of a job of any pipeline has ended, on the success
\* path or after a failure at any step, no temporary file of that job (video
\* file, thumbnail file) exists.
C11_GuaranteedCleanup ==
    \A j \in JobIds : job[j].pc = "done" => job[j].tmp = {}

Inserted(j) == IsYt(j) /\ job[j].vid # 0

\* The instant publish_at denotes: the wall time less its own offset, or less
\* the offset of UK time at that wall time when it carries none.
Instant(p) == p.wall - (IF p.form = "offset" THEN p.off ELSE IF p.wall >= 1 THEN 1 ELSE 0)

\* C12: a YouTube item whose job's publish_at parses to an instant later than
\* the clock reading of the scheduling step is inserted private with publishAt
\* that instant in UTC with a Z suffix, whatever privacy the caller sent; when
\* the instant is not later, it is inserted with the caller's privacy and no
\* publishAt.
C12_ScheduledPublish ==
    \A j \in JobIds :
        (Inserted(j) /\ job[j].publish_at.form \in {"offset", "naive", "z"}) =>
            IF Instant(job[j].publish_at) > job[j].now
            THEN /\ job[j].item.privacyStatus = "private"
                 /\ job[j].item.publishAt = <<Instant(job[j].publish_at), "Z">>
            ELSE /\ job[j].item.privacyStatus = job[j].privacy
                 /\ job[j].item.publishAt = <<>>

\* C12 witness: a public job with a bare summer wall time, scheduled private
\* an hour earlier in UTC, and its record completed.
C12_Witness ==
    \E j \in JobIds :
        /\ Inserted(j) /\ job[j].pc = "done"
        /\ job[j].privacy = "public" /\ job[j].publish_at.form = "naive"
        /\ job[j].publish_at.wall = 2 /\ job[j].now = 0
        /\ job[j].item = [privacyStatus |-> "private", publishAt |-> <<1, "Z">>]
        /\ Rec(j).state = "completed"

\* C13: the worker's completed write and its error write overwrite only the
\* keys they name: the channel, title and started_at written at admission are
\* still in the record of a job that has reached a terminal state.
C13_PatchIsMerge ==
    \A j \in JobIds :
        (IsYt(j) /\ job[j].landed # "" /\ Rec(j).state = job[j].landed) =>
            /\ {"channel", "title", "started_at"} \subseteq DOMAIN Rec(j)
            /\ Rec(j).channel = ProcessingRecord(job[j].channel).channel
            /\ Rec(j).title = ProcessingRecord(job[j].channel).title
            /\ Rec(j).started_at = ProcessingRecord(job[j].channel).started_at

\* The admission of job j has written its record and started its worker.
Recorded(j) == IsYt(j) /\ job[j].pc \notin {"none", "unstarted"}

\* C14: a reader of the status document gets the mapping from before or from
\* after a concurrent write, never an empty or partial one: /status-check for
\* a job whose record is in the store before and after every write that
\* follows its admission answers 200, never 404.
C14_NoTornReads ==
    \A j \in JobIds :
        (Recorded(j) /\ h.pc = "responded" /\ h.ep = "status" /\ h.jid = j)
            => h.resp.code = 200

\* The text of item m contains job_id.
Mentions(m, job_id) == \E a \in m.hay : a[2] = job_id

\* The first item of a response whose text contains job_id, if any.
HasMatch(r, job_id) == r.ok /\ \E k \in 1..Len(r.items) : Mentions(r.items[k], job_id)

IsFirstMatch(r, job_id, k) ==
    /\ k \in 1..Len(r.items)
    /\ Mentions(r.items[k], job_id)
    /\ \A l \in 1..(k - 1) : ~Mentions(r.items[l], job_id)

\* C15: /wp-status-by-job with a job_id answers 200 completed with the first
\* matching item of the search response when that response has a match;
\* otherwise it queries the most recent items and answers 200 completed with the
\* first matching item there; it answers 202 processing exactly when both
\* responses came and neither has a match; and the second request is made only
\* after the first response had no match.
C15_ReconciliationOutcome ==
    (h.ep = "wpstatus" /\ h.jid # NoJob /\ wp_env) =>
        LET P == h.passes IN
        /\ h.pc = "wp_pass2" => (Len(P) = 1 /\ P[1].ok /\ ~HasMatch(P[1], h.jid))
        /\ h.pc = "responded" =>
             /\ Len(P) \in {1, 2}
             /\ HasMatch(P[1], h.jid) =>
                  /\ Len(P) = 1
                  /\ \E k \in 1..Len(P[1].items) :
                        IsFirstMatch(P[1], h.jid, k) /\ h.resp = Found(P[1].items[k])
             /\ (P[1].ok /\ ~HasMatch(P[1], h.jid)) => Len(P) = 2
             /\ Len(P) = 2 =>
                  /\ P[1].ok /\ ~HasMatch(P[1], h.jid)
                  /\ HasMatch(P[2], h.jid) =>
                        \E k \in 1..Len(P[2].items) :
                           IsFirstMatch(P[2], h.jid, k) /\ h.resp = Found(P[2].items[k])
             /\ h.resp.code = 202 <=>
                  (Len(P) = 2 /\ P[1].ok /\ P[2].ok
                      /\ ~HasMatch(P[1], h.jid) /\ ~HasMatch(P[2], h.jid))
             /\ h.resp.code = 202 =>
                  h.resp = [code |-> 202, state |-> "processing", note |-> "not found yet"]

\* C15 witness: the search response was empty, the recent items hold two
\* that mention the id, and the lookup answered with the first of them.
C15_Witness ==
    /\ h.pc = "responded" /\ h.ep = "wpstatus" /\ Len(h.passes) = 2
    /\ h.passes[1].items = <<>>
    /\ Len(h.passes[2].items) = 2
    /\ Mentions(h.passes[2].items[1], h.jid) /\ Mentions(h.passes[2].items[2], h.jid)
    /\ h.resp = Found(h.passes[2].items[1])

\* C16: when the WordPress configuration is missing or a listing request of
\* /wp-status-by-job fails, the endpoint answers 500 with state error and makes
\* no further request; no step of the lookup changes the status document or
\* the state of any job.
C16_LookupError ==
    [][ (h.pc \in {"idle", "wp_pass2"} /\ h' # h /\ h'.ep = "wpstatus" /\ h'.jid # NoJob) =>
          /\ file' = file /\ job' = job /\ minted' = minted
          /\ (~wp_env \/ \E k \in 1..Len(h'.passes) : ~h'.passes[k].ok) =>
                /\ h'.pc = "responded"
                /\ h'.resp.code = 500 /\ h'.resp.state = "error"
                /\ \A k \in 1..(Len(h'.passes) - 1) : h'.passes[k].ok ]_vars

\* C16 witness: the second listing request failed, the lookup answered 500,
\* and the status document holds a completed record.
C16_Witness ==
    /\ h.pc = "responded" /\ h.ep = "wpstatus" /\ h.resp.code = 500
    /\ Len(h.passes) = 2 /\ ~h.passes[2].ok
    /\ \E j \in JobIds : Rec(j).state = "completed"

\* steps of every job occur in increasing rank.
InOrder(rank(_)) ==
    \A j \in JobIds :
        IsYt(j) =>
            \A a \in 1..Len(job[j].steps), b \in 1..Len(job[j].steps) :
                a < b => rank(job[j].steps[a]) < rank(job[j].steps[b])

ClaimedRank(st) ==
    CASE st = "fetch" -> 1 [] st = "auth" -> 2 [] st = "transfer" -> 3
      [] st = "thumbnail" -> 4 [] st = "delete" -> 5 [] st = "finalize" -> 6
      [] st = "cleanup" -> 7

\* C17: the steps of a YouTube job that occur do so in the order fetch,
\* authenticate, transfer, thumbnail, source delete, finalize, cleanup.
C17_StepOrder == InOrder(ClaimedRank)

\* Job j's own worker lands its terminal write in this step.
OwnWrite(j) == job[j].pc \in {"final_dump", "error_dump"} /\ job'[j].pc = "done"

\* C18: the worker of a YouTube job is started by the step of its admission
\* handler that follows the write of the processing record, and the record of
\* job j goes from processing to completed or error only in a write step of
\* j's own worker, never in a step of an admission handler, of a status
\* endpoint or of another job's worker.
C18_TerminalByOwnWorker ==
    [][ \A j \in JobIds :
          /\ (job[j].pc = "unstarted" /\ job'[j].pc = "start")
                => (h.pc = "yt_start" /\ h.jid = j)
          /\ (Rec(j).state = "processing" /\ Terminal(Rec(j)'))
                => OwnWrite(j) ]_vars

\* No thread has a step left: the handler waits for a request and every
\* worker that was started has ended.
Quiescent == h.pc = "idle" /\ \A j \in JobIds : job[j].pc \in {"none", "done"}

\* C19: every admitted YouTube job ends with a terminal record in the store,
\* whatever other jobs were admitted or finished meanwhile: once every thread
\* has run to its end, the record of each admitted YouTube job is completed or
\* error.
C19_EveryJobTerminal ==
    Quiescent => \A j \in JobIds : IsYt(j) => Terminal(Rec(j))

\* Writer x (a worker) lands its write in this step.
WorkerLands(x) ==
    /\ job[x].pc \in {"final_dump", "error_dump"} /\ job'[x].pc = "done"
    /\ file'.kind = "json"

\* The admission handler lands its write in this step.
HandlerLands == h.pc = "yt_dump" /\ h'.pc = "yt_start" /\ file'.kind = "json"

\* C20: the writes of the status document are unlocked read-modify-writes of
\* the whole document: when the terminal write of job y landed after another
\* writer (a worker or an admission handler) had read the document and before
\* that writer wrote, the document after the second write lacks y's update.
C20_LostUpdate ==
    [][ \A y \in JobIds :
          /\ (HandlerLands /\ y \in h.missed) => file'.data[y].state # job[y].landed
          /\ \A x \in JobIds :
                (WorkerLands(x) /\ y \in job[x].missed)
                    => file'.data[y].state # job[y].landed ]_vars

\* C20 witness: two workers both read the document before either wrote;
\* after both writes the document holds the record of the second and lacks the
\* completed record of the first.
C20_Witness ==
    \E x \in JobIds, y \in JobIds :
        /\ x # y /\ job[x].pc = "done" /\ job[y].pc = "done"
        /\ y \in job[x].missed
        /\ job[x].landed = "completed" /\ job[y].landed = "completed"
        /\ file.kind = "json"
        /\ file.data[x].state = "completed"
        /\ file.data[y].state = "processing"

\* The number of delete requests the worker of job j has issued.
Deletes(j) ==
    Count(job[j].log, "bunny.delete.success") + Count(job[j].log, "bunny.delete.failed")
        + Count(job[j].log, "bunny.delete.error")

\* C21: the worker of a YouTube job issues the delete request of
\* bunny_delete_url at most once, only when bunny_delete_url was supplied, and
\* only after the upload of that job has returned a video id; it issues none
\* in a run whose download, authentication or upload failed.
C21_DeleteOnlyAfterSuccess ==
    \A j \in JobIds :
        IsYt(j) =>
            /\ Deletes(j) <= 1
            /\ Deletes(j) = 1 =>
                  /\ job[j].bunny
                  /\ job[j].vid = j
                  /\ Has(job[j].log, "yt.done")
                  /\ job[j].err = ""
            /\ job[j].err # "" => Deletes(j) = 0

\* C21 witness: a job with bunny_delete_url whose upload returned a video id
\* has issued its one delete request, answered 200, and has ended completed.
C21_Witness ==
    \E j \in JobIds :
        /\ IsYt(j) /\ job[j].bunny /\ job[j].pc = "done" /\ job[j].vid = j
        /\ Count(job[j].log, "bunny.delete.success") = 1
        /\ Rec(j).state = "completed"

\* C22: every completed record of a YouTube job in the status document has
\* youtube_url https://youtu.be/<id> with the video id the upload of that job
\* returned, a finished_at and the channel chosen at its admission, and that
\* job's upload succeeded; every error record has the message of that job's
\* failure and a finished_at.
C22_TerminalRecordContent ==
    \A j \in JobIds :
        /\ Rec(j).state = "completed" =>
              /\ IsYt(j) /\ job[j].vid = j /\ Has(job[j].log, "yt.done")
              /\ {"youtube_url", "finished_at", "channel"} \subseteq DOMAIN Rec(j)
              /\ Rec(j).youtube_url = <<"https://youtu.be/", job[j].vid>>
              /\ Rec(j).channel = job[j].channel
        /\ Rec(j).state = "error" =>
              /\ IsYt(j) /\ job[j].err # ""
              /\ {"error", "finished_at"} \subseteq DOMAIN Rec(j)
              /\ Rec(j).error = job[j].err

\* C22 witness: a job admitted for the US channel has ended with a completed
\* record that carries the URL of its video and that channel.
C22_Witness ==
    \E j \in JobIds :
        /\ IsYt(j) /\ job[j].pc = "done" /\ job[j].channel = "US"
        /\ Rec(j).state = "completed"
        /\ Rec(j).youtube_url = <<"https://youtu.be/", j>>
        /\ Rec(j).channel = "US"

\* The number of times the worker of job j has been started, and the number of
\* times it has attempted its primary transfer.
Starts(j) ==
    IF IsYt(j) THEN Count(job[j].log, "yt.start")
    ELSE Count(job[j].log, WpEvent(job[j].kind, "start"))

Transfers(j) ==
    IF IsYt(j) THEN Count(job[j].steps, "transfer")
    ELSE Count(job[j].log, WpEvent(job[j].kind, "done"))
            + Count(job[j].log, WpEvent(job[j].kind, "timeout"))
            + Count(job[j].log, WpEvent(job[j].kind, "error"))

Running(j) == job[j].pc \notin {"none", "unstarted", "done"}

\* C23: a valid admission is answered with a freshly minted job_id whose
\* worker, and no other, it has started; no worker starts twice and none
\* attempts its primary transfer twice; no job exists that was not admitted;
\* and neither the admission of a valid request nor any later step of its
\* handler is disabled by the workers that are running.
C23_OneWorkerPerJob ==
    /\ \A j \in JobIds :
          /\ Starts(j) <= 1 /\ Transfers(j) <= 1
          /\ j > minted <=> job[j].kind = "none"
          /\ job[j].kind = "none" <=> job[j].pc = "none"
          /\ job[j].pc = "unstarted" => (h.jid = j /\ h.pc \in {"yt_open", "yt_dump", "yt_start"})
    /\ (h.pc = "idle" /\ minted + 1 \in JobIds) =>
          /\ ENABLED upload_youtube("x", "x", "x", FALSE, FALSE, <<>>, "unlisted", NoPublishAt)
          /\ ENABLED upload_wp("x", FALSE, NoJob)
          /\ ENABLED upload_wp_image("x", "None", "None", FALSE, NoJob)
    /\ h.pc \in {"yt_open", "yt_dump", "yt_start", "yt_return", "wp_return"} =>
          /\ h.jid = minted
          /\ ENABLED (upload_youtube_steps \/ upload_wp_return)
    /\ (h.pc = "responded" /\ Admission(h.ep) /\ h.resp.code = 202) =>
          /\ h.resp.job_id = minted
          /\ job[minted].kind = h.ep
          /\ job[minted].pc \notin {"none", "unstarted"}

\* C23 witness: the second admission has been answered 202 while the worker
\* of the first job was still running, and both workers run.
C23_Witness ==
    /\ h.pc = "responded" /\ h.ep = "yt" /\ h.resp.code = 202 /\ h.resp.job_id = 2
    /\ Running(1) /\ Running(2)
    /\ Starts(1) = 1 /\ Transfers(1) = 1

\* C24: no temporary path is created, read or deleted by two jobs, and the
\* file a job transfers is the one that job downloaded.
C24_PrivateTempFiles ==
    \A j \in JobIds :
        /\ \A k \in JobIds : k # j => job[j].paths \cap job[k].paths = {}
        /\ job[j].sent \in {NoJob, j}

\* The status document cannot be read: the file is missing or empty, or holds
\* bytes json.load rejects.
Degraded == file.kind # "json"

\* C25: a read of a missing or malformed status document raises nothing and
\* yields the empty mapping: /status-check with a job_id then answers 404
\* whatever the job_id, and a valid admission goes on with a document that
\* holds the new job's processing record and nothing else, writes it (the
\* file holds exactly that document unless another writer has filled it since
\* this writer opened it) and answers 202.
C25_ReadDegradesToEmpty ==
    [][ /\ (Answers("status") /\ Degraded /\ h'.jid # NoJob) => h'.resp = [code |-> 404]
        /\ (h.pc = "idle" /\ h'.ep = "yt" /\ ValidRequest(h') /\ Degraded) =>
              /\ h'.pc = "yt_open" /\ h'.jid = minted'
              /\ h'.st = [EmptyMap EXCEPT ![h'.jid] = ProcessingRecord(job'[h'.jid].channel)]
        /\ (h.pc = "yt_dump" /\ h'.pc = "yt_start") =>
              /\ h.st[h.jid].state = "processing"
              /\ file.kind = "empty" => file' = JsonFile(h.st)
        /\ (h.pc = "yt_return" /\ h'.pc = "responded") =>
              (h'.resp.code = 202 /\ h'.resp.job_id = h.jid) ]_vars

\* C25 witness: the second admission read the document while the first job's
\* worker had it truncated, was answered 202, and the document it wrote holds
\* the second job's processing record and no record of the first.
C25_Witness ==
    /\ h.pc = "responded" /\ h.ep = "yt" /\ h.resp.code = 202 /\ h.resp.job_id = 2
    /\ Recorded(1)
    /\ file = JsonFile([EmptyMap EXCEPT ![2] = ProcessingRecord("UK")])

\* The position of the first item of a response whose text contains job_id.
FirstMention(r, job_id) ==
    CHOOSE k \in 1..Len(r.items) : IsFirstMatch(r, job_id, k)

\* The answer of the lookup as a function of job_id and of the responses P of
\* the listing requests it made.
LookupAnswer(job_id, P) ==
    IF job_id = NoJob THEN [code |-> 400]
    ELSE IF P = <<>> \/ \E k \in 1..Len(P) : ~P[k].ok THEN [code |-> 500, state |-> "error"]
    ELSE IF HasMatch(P[1], job_id)
    THEN LET m == P[1].items[FirstMention(P[1], job_id)] IN
         [code |-> 200, state |-> "completed", attachment_id |-> m.aid,
          source_url |-> m.source_url]
    ELSE IF Len(P) = 2 /\ HasMatch(P[2], job_id)
    THEN LET m == P[2].items[FirstMention(P[2], job_id)] IN
         [code |-> 200, state |-> "completed", attachment_id |-> m.aid,
          source_url |-> m.source_url]
    ELSE [code |-> 202, state |-> "processing", note |-> "not found yet"]

\* C26: no step of /wp-status-by-job changes the status document, a job or
\* the remote listing, and the lookup keeps nothing from one call to the next:
\* its status code and body are a function of job_id and of what the listing
\* requests of that call returned, the second of which is the most recent
\* items of the listing as it is.
C26_LookupReadOnly ==
    [][ (h.pc \in {"idle", "wp_pass2"} /\ h' # h /\ h'.ep = "wpstatus") =>
          /\ file' = file /\ job' = job /\ remote' = remote
          /\ wp_pending' = wp_pending /\ minted' = minted /\ wp_env' = wp_env
          /\ h.pc = "idle" => h = IdleH
          /\ (Len(h'.passes) = 2 /\ h'.passes[2].ok) => h'.passes[2].items = Page(remote)
          /\ h'.pc = "responded" => h'.resp = LookupAnswer(h'.jid, h'.passes) ]_vars

\* C26 witness: a lookup has answered 200 from the most recent items while
\* the status document holds a record, which is as it was.
C26_Witness ==
    /\ h.pc = "responded" /\ h.ep = "wpstatus" /\ h.resp.code = 200
    /\ Len(h.passes) = 2
    /\ \E j \in JobIds : Rec(j).state = "processing"

\* C27: with a known total size any two successively reported percentages
\* are at least 10 points apart and at most 11 are reported; with an unknown
\* total size none is reported; and a download that has returned has written
\* every byte of the body.
C27_ProgressGranularity ==
    /\ \A i \in 1..(Len(dl.reports) - 1) : dl.reports[i + 1] - dl.reports[i] >= 10
    /\ Len(dl.reports) <= 11
    /\ dl.total = 0 => dl.reports = <<>>
    /\ dl.pc = "done" => (dl.body = 0 /\ dl.written > 0)

\* The offset of UK time from UTC at a wall time.
LondonOffset(wall) == IF wall >= 1 THEN 1 ELSE 0

\* C28: a publish_at text that ends in a numeric UTC offset and is accepted
\* is read as its wall time at that offset; every other accepted text (space
\* or T, with or without seconds, with or without a trailing Z) is read as
\* its wall time in Europe/London.
C28_TimestampInterpretation ==
    \A j \in JobIds :
        (IsYt(j) /\ job[j].dt.set) =>
            LET t == job[j].publish_at.text IN
            /\ job[j].dt.wall = t.wall
            /\ job[j].dt.off = IF t.suffix \in {"+HH:MM", "+HHMM"} THEN t.off
                               ELSE LondonOffset(t.wall)

\* The dropdown value v is among the entries of location, whatever its case
\* and the blanks around it.
Among(location, v) == \E i \in 1..Len(location) : Normalise(location[i]) = v

\* The first of UK, US, Spain, Asia whose dropdown value is among the entries,
\* UK when none is.
FirstChannel(location) ==
    IF Among(location, "united kingdom") THEN "UK"
    ELSE IF Among(location, "north america") THEN "US"
    ELSE IF Among(location, "north america (spanish)") THEN "Spain"
    ELSE IF Among(location, "asia") THEN "Asia"
    ELSE "UK"

\* C29: the channel of a job is the first of UK, US, Spain, Asia whose
\* dropdown value is among the entries of its location, UK when none is or
\* location is omitted, and the 202 response, the processing record and the
\* completed record of the job all carry that channel.
C29_ChannelSelection ==
    \A j \in JobIds :
        IsYt(j) =>
            LET c == FirstChannel(job[j].location) IN
            /\ job[j].channel = c
            /\ (h.pc = "responded" /\ h.ep = "yt" /\ h.resp.code = 202 /\ h.resp.job_id = j)
                  => h.resp.channel = c
            /\ Rec(j).state \in {"processing", "completed"} => Rec(j).channel = c
            /\ (h.pc = "responded" /\ h.ep = "status" /\ h.jid = j /\ h.resp.code = 200
                    /\ h.resp.body.state \in {"processing", "completed"})
                  => h.resp.body.channel = c

\* C29 witness: a job whose location lists Asia, padded and in capitals,
\* before North America (Spanish) has a completed record for the Spain channel.
C29_Witness ==
    \E j \in JobIds :
        /\ IsYt(j) /\ job[j].location = <<" ASIA ", "north america (spanish)">>
        /\ job[j].pc = "done"
        /\ Rec(j).state = "completed" /\ Rec(j).channel = "Spain"

\* A non-fatal side effect of job j has failed.
SideEffectFailed(j) ==
    \/ Has(job[j].log, "yt.thumb.error")
    \/ Has(job[j].log, "bunny.delete.failed")
    \/ Has(job[j].log, "bunny.delete.error")

\* C30: the completed record of a job one of whose side effects (thumbnail,
\* source delete) failed carries an auxiliary field, beyond the fields of the
\* record of a run whose side effects all succeeded, that records the failure.
C30_SideEffectFailureRecorded ==
    \A j \in JobIds :
        (IsYt(j) /\ Rec(j).state = "completed" /\ SideEffectFailed(j)) =>
            DOMAIN Rec(j) \ {"state", "youtube_url", "finished_at", "channel",
                             "source_filename"} # {}

\* /upload-to-youtube has returned 202 with job id j.
Acked(j) ==
    /\ IsYt(j) /\ job[j].pc \notin {"none", "unstarted"}
    /\ ~(h.ep = "yt" /\ h.jid = j /\ h.pc = "yt_return")

\* C31: once /upload-to-youtube has returned 202 with a job_id, every
\* /status-check for that job_id answers 200 with a record whose state is
\* processing, completed or error, never 404, whatever the admissions and
\* workers of other jobs do.
C31_AdmittedNeverUnknown ==
    [][ \A j \in JobIds :
          (Answers("status") /\ h'.jid = j /\ Acked(j)) =>
              /\ h'.resp.code = 200
              /\ h'.resp.body.state \in {"processing", "completed", "error"} ]_vars

\* The markers job:<id> item m is stamped with.
Stamps(m) == {a \in m.hay : a[1] = "job:"}

\* The items the listing requests of the lookup returned.
Returned == UNION { {h.passes[k].items[i] : i \in 1..Len(h.passes[k].items)} :
                      k \in 1..Len(h.passes) }

\* C32: /wp-status-by-job answers 200 completed for a job_id only with the
\* attachment_id and source_url of an item that one of its listing requests
\* returned and whose description, title or caption contains that job_id, and
\* never with an item stamped only with another job's marker.
C32_NoFalsePositive ==
    (h.pc = "responded" /\ h.ep = "wpstatus" /\ h.resp.code = 200) =>
        /\ \E m \in Returned : h.resp = Found(m)
        /\ \A m \in Returned :
              h.resp = Found(m) =>
                  /\ Mentions(m, h.jid)
                  /\ Stamps(m) \subseteq {Token(h.jid)}

\* C33: a YouTube job whose record has state error has had no successful
\* upload and no delete request issued for its source, also when a write of
\* the status document has failed.
C33_ErrorMeansNothingDone ==
    \A j \in JobIds :
        (IsYt(j) /\ Rec(j).state = "error") =>
            /\ job[j].vid = 0 /\ ~Has(job[j].log, "yt.done")
            /\ Deletes(j) = 0

\* C34: a publish_at that is present and cannot be parsed does not send the
\* job to error: the insert is attempted, only its own failure is an error,
\* and the item is created with the caller's privacy and without publishAt, as
\* it is when publish_at is omitted; the job then ends completed.
C34_UnparseableNotFatal ==
    \A j \in JobIds :
        (IsYt(j) /\ job[j].publish_at.form = "bad") =>
            /\ job[j].pc = "authed" => ENABLED yt_insert(j, "ok", 0)
            /\ job[j].err \in {"", "upload"}
            /\ job[j].err = "upload" => Has(job[j].steps, "transfer")
            /\ Inserted(j) =>
                  /\ job[j].err = ""
                  /\ job[j].item = [privacyStatus |-> job[j].privacy, publishAt |-> <<>>]
                  /\ Has(job[j].log, "yt.schedule.error")
            /\ (Inserted(j) /\ job[j].pc = "done") => Rec(j).state = "completed"

\* C34 witness: a public job with an unparseable publish_at has been inserted
\* public without publishAt and has ended completed.
C34_Witness ==
    \E j \in JobIds :
        /\ IsYt(j) /\ job[j].publish_at.form = "bad" /\ job[j].privacy = "public"
        /\ job[j].pc = "done" /\ job[j].vid = j
        /\ job[j].item = [privacyStatus |-> "public", publishAt |-> <<>>]
        /\ Rec(j).state = "completed"

====
